---- MODULE Spec2Model ----
(***************************************************************************)
(* Regex Roulette (src/regex_roulette.py): an interactive loop that reads  *)
(* a pattern line and a verbosity line, compiles the pattern, runs it and  *)
(* each case's reference pattern with full-match semantics against a       *)
(* shuffled copy of a fixed ten-record catalog, and prints per-case        *)
(* entries, a score and one commentary message.                            *)
(*                                                                         *)
(* Text is a sequence of one-character strings.  The regular expression    *)
(* engine (Python's re) is modelled by a parser and a matcher for the      *)
(* part of the dialect the catalog and the enumerated inputs use:          *)
(* literals, ".", the escapes \d \D \s \S \w \W \A \Z \b \n \t \r \f,      *)
(* escaped punctuation, "^", "$", the quantifiers * + ? {m} {m,} {,n}      *)
(* {m,n} with an optional lazy "?", groups "(...)" and "(?:...)", and      *)
(* alternation.  Character classes, back references, the other "(?"        *)
(* extensions and possessive quantifiers are reported as "unsupported"     *)
(* by the parser; InDialect states that no enumerated input is one.        *)
(***************************************************************************)
EXTENDS Integers, Sequences, FiniteSets, TLC

(***************************************************************************)
(* Characters                                                              *)
(***************************************************************************)
LowerLetters == <<"a","b","c","d","e","f","g","h","i","j","k","l","m",
                  "n","o","p","q","r","s","t","u","v","w","x","y","z">>

UpperLetters == <<"A","B","C","D","E","F","G","H","I","J","K","L","M",
                  "N","O","P","Q","R","S","T","U","V","W","X","Y","Z">>

Range(f) == {f[i] : i \in DOMAIN f}

ASCII_LETTERS == Range(LowerLetters) \cup Range(UpperLetters)

DIGITS == {"0","1","2","3","4","5","6","7","8","9"}

\* str.isspace() on the characters of the model's alphabet
WHITESPACE == {" ", "\t", "\n", "\r", "\f"}

\* \w of a str pattern is Unicode-aware: the accented letter is a word character
WORD == ASCII_LETTERS \cup DIGITS \cup {"_", "é"}

\* str.lower() of one character
LowerChar(c) ==
    IF \E i \in DOMAIN UpperLetters : UpperLetters[i] = c
    THEN LowerLetters[CHOOSE i \in DOMAIN UpperLetters : UpperLetters[i] = c]
    ELSE c

\* str.lower()
lower(s) == [i \in DOMAIN s |-> LowerChar(s[i])]

\* str.strip(): drop the leading and the trailing whitespace
strip(s) ==
    LET keep == {i \in DOMAIN s : s[i] \notin WHITESPACE}
    IN  IF keep = {} THEN <<>>
        ELSE LET first == CHOOSE i \in keep : \A j \in keep : i <= j
                 last  == CHOOSE i \in keep : \A j \in keep : j <= i
             IN  SubSeq(s, first, last)

Min(S) == CHOOSE x \in S : \A y \in S : x <= y

(***************************************************************************)
(* re.compile: the parser                                                  *)
(***************************************************************************)
\* Repetition counts are compared with MAXREPEAT exactly, on their digits;
\* for matching they are kept as numbers saturated at RepeatCap, which is
\* above every subject length (a larger count matches nothing more).
RepeatCap == 100000

\* sre's MAXREPEAT (4294967295), not to be reached by a repetition number
MAXREPEAT_DIGITS == <<"4","2","9","4","9","6","7","2","9","5">>

DigitSeq == <<"0","1","2","3","4","5","6","7","8","9">>

DigitValue(c) == (CHOOSE k \in DOMAIN DigitSeq : DigitSeq[k] = c) - 1

StripZeros(d) ==
    LET nz == {i \in DOMAIN d : d[i] # "0"}
    IN  IF nz = {} THEN <<>> ELSE SubSeq(d, Min(nz), Len(d))

\* a >= b for digit strings of the same length
DigitsGE(a, b) ==
    \/ a = b
    \/ \E i \in DOMAIN a :
          /\ DigitValue(a[i]) > DigitValue(b[i])
          /\ \A j \in 1..(i - 1) : a[j] = b[j]

\* int(d) >= MAXREPEAT
TooLarge(d) ==
    LET z == StripZeros(d)
    IN  \/ Len(z) > Len(MAXREPEAT_DIGITS)
        \/ Len(z) = Len(MAXREPEAT_DIGITS) /\ DigitsGE(z, MAXREPEAT_DIGITS)

RECURSIVE IntOfPrefix(_, _)
\* int() of the first k digits of d, saturated at RepeatCap
IntOfPrefix(d, k) ==
    IF k = 0 THEN 0
    ELSE LET v == IntOfPrefix(d, k - 1) * 10 + DigitValue(d[k])
         IN  IF v >= RepeatCap THEN RepeatCap ELSE v

IntOf(d) == IntOfPrefix(d, Len(d))

\* the first position at or after i that holds no digit
ScanDigits(t, i) ==
    LET nd == {j \in i..Len(t) : t[j] \notin DIGITS}
    IN  IF nd = {} THEN Len(t) + 1 ELSE Min(nd)

At(t, i) == IF i \in DOMAIN t THEN t[i] ELSE "<end>"

\* "{" at position i: a repetition {lo}, {lo,hi}, {lo,}, {,hi}, {,} or a literal brace
ParseBrace(t, i) ==
    IF At(t, i + 1) = "}" THEN [kind |-> "literal"]
    ELSE LET a     == ScanDigits(t, i + 1)
             lo    == SubSeq(t, i + 1, a - 1)
             comma == At(t, a) = ","
             b     == IF comma THEN ScanDigits(t, a + 1) ELSE a
             hi    == IF comma THEN SubSeq(t, a + 1, b - 1) ELSE lo
         IN  IF At(t, b) = "}"
             THEN [kind |-> "repeat", lo |-> lo, hi |-> hi, pos |-> b + 1]
             ELSE [kind |-> "literal"]

Err(msg) == [st |-> "error", msg |-> msg]

Overflow == [st |-> "overflow", msg |-> "the repetition number is too large"]

Unsupported == [st |-> "unsupported"]

\* the bounds of the quantifier at position i, and the position after it
Quantifier(t, i) ==
    CASE t[i] = "?" -> [st |-> "ok", min |-> 0, max |-> 1, pos |-> i + 1]
      [] t[i] = "*" -> [st |-> "ok", min |-> 0, max |-> RepeatCap, pos |-> i + 1]
      [] t[i] = "+" -> [st |-> "ok", min |-> 1, max |-> RepeatCap, pos |-> i + 1]
      [] OTHER ->
           LET b == ParseBrace(t, i)
           IN  IF b.lo # <<>> /\ TooLarge(b.lo) THEN Overflow
               ELSE IF b.hi # <<>> /\ TooLarge(b.hi) THEN Overflow
               ELSE LET min == IF b.lo # <<>> THEN IntOf(b.lo) ELSE 0
                        max == IF b.hi # <<>> THEN IntOf(b.hi) ELSE RepeatCap
                    IN  IF max < min
                        THEN Err("min repeat greater than max repeat")
                        ELSE [st |-> "ok", min |-> min, max |-> max, pos |-> b.pos]

\* the item a quantifier applies to, and the optional lazy mark
Repeat(t, acc, q) ==
    IF acc = <<>> \/ acc[Len(acc)].op = "at" THEN Err("nothing to repeat")
    ELSE IF acc[Len(acc)].op = "repeat" THEN Err("multiple repeat")
    ELSE IF At(t, q.pos) = "+" THEN Unsupported
    ELSE LET lazy == At(t, q.pos) = "?"
             node == [op |-> "repeat", min |-> q.min, max |-> q.max,
                      lazy |-> lazy, item |-> acc[Len(acc)]]
         IN  [st |-> "ok",
              items |-> SubSeq(acc, 1, Len(acc) - 1) \o <<node>>,
              pos |-> IF lazy THEN q.pos + 1 ELSE q.pos]

\* the escape "\" c
Escape(c) ==
    CASE c \in {"d", "D", "s", "S", "w", "W"} ->
            [st |-> "ok", node |-> [op |-> "category", cat |-> c]]
      [] c = "A" -> [st |-> "ok", node |-> [op |-> "at", where |-> "beginning_string"]]
      [] c = "Z" -> [st |-> "ok", node |-> [op |-> "at", where |-> "end_string"]]
      [] c = "b" -> [st |-> "ok", node |-> [op |-> "at", where |-> "boundary"]]
      [] c = "n" -> [st |-> "ok", node |-> [op |-> "literal", ch |-> "\n"]]
      [] c = "t" -> [st |-> "ok", node |-> [op |-> "literal", ch |-> "\t"]]
      [] c = "r" -> [st |-> "ok", node |-> [op |-> "literal", ch |-> "\r"]]
      [] c = "f" -> [st |-> "ok", node |-> [op |-> "literal", ch |-> "\f"]]
      [] c \in DIGITS \cup {"a", "v", "x", "u", "U", "N", "B"} -> Unsupported
      [] c \in ASCII_LETTERS -> Err("bad escape")
      [] OTHER -> [st |-> "ok", node |-> [op |-> "literal", ch |-> c]]

RECURSIVE ParseSub(_, _), ParseItems(_, _, _)

\* after an escape e that ends before position i
AfterEscape(t, i, acc, e) ==
    IF e.st # "ok" THEN e ELSE ParseItems(t, i, Append(acc, e.node))

\* after the repetition r
AfterRepeat(t, r) ==
    IF r.st # "ok" THEN r ELSE ParseItems(t, r.pos, r.items)

\* after the quantifier q
AfterQuantifier(t, acc, q) ==
    IF q.st # "ok" THEN q ELSE AfterRepeat(t, Repeat(t, acc, q))

\* after the body p of a group: its closing parenthesis
CloseGroup(t, acc, p) ==
    IF p.st # "ok" THEN p
    ELSE IF At(t, p.pos) # ")" THEN Err("missing ), unterminated subpattern")
    ELSE ParseItems(t, p.pos + 1, Append(acc, [op |-> "subpattern", alts |-> p.alts]))

\* a sequence of items from position i up to "|", ")" or the end of the text
ParseItems(t, i, acc) ==
    IF i > Len(t) \/ t[i] \in {"|", ")"}
    THEN [st |-> "ok", items |-> acc, pos |-> i]
    ELSE CASE t[i] = "\\" ->
                IF i = Len(t) THEN Err("bad escape (end of pattern)")
                ELSE AfterEscape(t, i + 2, acc, Escape(t[i + 1]))
           [] t[i] = "[" -> Unsupported
           [] t[i] \in {"*", "+", "?", "{"} ->
                IF t[i] = "{" /\ ParseBrace(t, i).kind = "literal"
                THEN ParseItems(t, i + 1, Append(acc, [op |-> "literal", ch |-> "{"]))
                ELSE AfterQuantifier(t, acc, Quantifier(t, i))
           [] t[i] = "." -> ParseItems(t, i + 1, Append(acc, [op |-> "any"]))
           [] t[i] = "(" ->
                IF At(t, i + 1) = "?" /\ i + 1 = Len(t)
                THEN Err("unexpected end of pattern")
                ELSE IF At(t, i + 1) = "?" /\ t[i + 2] # ":" THEN Unsupported
                ELSE CloseGroup(t, acc,
                         ParseSub(t, IF At(t, i + 1) = "?" THEN i + 3 ELSE i + 1))
           [] t[i] = "^" ->
                ParseItems(t, i + 1, Append(acc, [op |-> "at", where |-> "beginning"]))
           [] t[i] = "$" ->
                ParseItems(t, i + 1, Append(acc, [op |-> "at", where |-> "end"]))
           [] OTHER ->
                ParseItems(t, i + 1, Append(acc, [op |-> "literal", ch |-> t[i]]))

\* the alternatives after the first one, joined to it
JoinAlts(items, rest) ==
    IF rest.st # "ok" THEN rest
    ELSE [st |-> "ok", alts |-> <<items>> \o rest.alts, pos |-> rest.pos]

\* after the items r of one alternative
AfterItems(t, r) ==
    IF r.st # "ok" THEN r
    ELSE IF At(t, r.pos) = "|" THEN JoinAlts(r.items, ParseSub(t, r.pos + 1))
    ELSE [st |-> "ok", alts |-> <<r.items>>, pos |-> r.pos]

\* alternatives separated by "|", from position i up to ")" or the end of the text
ParseSub(t, i) == AfterItems(t, ParseItems(t, i, <<>>))

\* the end of the text after the alternatives p
Finish(t, p) ==
    IF p.st # "ok" THEN p
    ELSE IF p.pos <= Len(t) THEN Err("unbalanced parenthesis")
    ELSE [st |-> "ok", alts |-> p.alts]

\* sre's parse of a whole pattern text
Parse(t) == Finish(t, ParseSub(t, 1))

(***************************************************************************)
(* The matcher: the set of offsets at which a match of a node that starts  *)
(* at offset p of the subject s can end.  Offsets run from 0 to Len(s).    *)
(***************************************************************************)
\* Python's None, as a value comparable with a match object
None == [none |-> TRUE]

CharMatches(node, c) ==
    CASE node.op = "literal" -> c = node.ch
      [] node.op = "any" -> c # "\n"
      [] node.op = "category" ->
           CASE node.cat = "d" -> c \in DIGITS
             [] node.cat = "D" -> c \notin DIGITS
             [] node.cat = "s" -> c \in WHITESPACE
             [] node.cat = "S" -> c \notin WHITESPACE
             [] node.cat = "w" -> c \in WORD
             [] node.cat = "W" -> c \notin WORD

IsWordAt(s, k) == k \in DOMAIN s /\ s[k] \in WORD

AtHolds(where, s, p) ==
    CASE where \in {"beginning", "beginning_string"} -> p = 0
      [] where = "end" -> p = Len(s) \/ (p = Len(s) - 1 /\ s[Len(s)] = "\n")
      [] where = "end_string" -> p = Len(s)
      [] where = "boundary" -> s # <<>> /\ IsWordAt(s, p) # IsWordAt(s, p + 1)

\* a repeated one-character item: the run of matching characters after p
CharRepeatEnds(node, s, p) ==
    LET limit == IF p + node.max < Len(s) THEN p + node.max ELSE Len(s)
        bad   == {i \in (p + 1)..limit : ~CharMatches(node.item, s[i])}
        run   == IF bad = {} THEN limit - p ELSE Min(bad) - 1 - p
    IN  {p + k : k \in node.min..run}

RECURSIVE Ends(_, _, _), SeqEnds(_, _, _, _), AltEnds(_, _, _),
          Exactly(_, _, _, _), Closure(_, _, _, _, _)

Step(item, s, S) == UNION {Ends(item, s, q) : q \in S}

\* the offsets after exactly n more matches of item
Exactly(item, s, S, n) ==
    IF n = 0 \/ S = {} THEN S
    ELSE LET T == Step(item, s, S)
         IN  IF T = S THEN S ELSE Exactly(item, s, T, n - 1)

\* the offsets after at most n more matches of item
Closure(item, s, seen, frontier, n) ==
    IF n = 0 \/ frontier = {} THEN seen
    ELSE LET new == Step(item, s, frontier) \ seen
         IN  Closure(item, s, seen \cup new, new, n - 1)

Ends(node, s, p) ==
    CASE node.op \in {"literal", "any", "category"} ->
           IF p < Len(s) /\ CharMatches(node, s[p + 1]) THEN {p + 1} ELSE {}
      [] node.op = "at" -> IF AtHolds(node.where, s, p) THEN {p} ELSE {}
      [] node.op = "subpattern" -> AltEnds(node.alts, s, p)
      [] node.op = "repeat" ->
           IF node.item.op \in {"literal", "any", "category"}
           THEN CharRepeatEnds(node, s, p)
           ELSE LET E == Exactly(node.item, s, {p}, node.min)
                IN  Closure(node.item, s, E, E, node.max - node.min)

SeqEnds(items, s, P, k) ==
    IF k > Len(items) \/ P = {} THEN P
    ELSE SeqEnds(items, s, UNION {Ends(items[k], s, q) : q \in P}, k + 1)

AltEnds(alts, s, p) == UNION {SeqEnds(alts[k], s, {p}, 1) : k \in DOMAIN alts}

\* Pattern.search: a match may start and end anywhere
search(compiled, s) ==
    IF \E p \in 0..Len(s) : AltEnds(compiled, s, p) # {}
    THEN LET p == Min({q \in 0..Len(s) : AltEnds(compiled, s, q) # {}})
         IN  [start |-> p]
    ELSE None

\* Pattern.match: a match starts at offset 0 and may end anywhere
match(compiled, s) ==
    IF AltEnds(compiled, s, 0) # {} THEN [start |-> 0] ELSE None

\* Pattern.fullmatch: the match starts at offset 0 and ends at the end of s
fullmatch(compiled, s) ==
    IF Len(s) \in AltEnds(compiled, s, 0) THEN [start |-> 0] ELSE None

\* bool() of a match object or None
bool(m) == m # None

\* re.fullmatch(pattern, string) of a pattern text
re_fullmatch(text, s) == fullmatch(Parse(text).alts, s)

(***************************************************************************)
(* generate_edge_cases                                                     *)
(***************************************************************************)
\* "a" * 1000
ManyAs == [k \in 1..1000 |-> "a"]

\* the list literal: (test_string, should_match, description) tuples
EdgeCases ==
    << << <<"h","e","l","l","o"," ","w","o","r","l","d">>,
          <<"h","e","l","l","o","\\","s","+","w","o","r","l","d">>,
          "Basic sanity check (you'll fail this)" >>,
       << <<"h","e","l","l","o","\n","w","o","r","l","d">>,
          <<"h","e","l","l","o",".","w","o","r","l","d">>,
          ". doesn't match newline (surprise!" >>,
       << <<"f","o","o"," ","b","a","r"," ","b","a","z">>,
          <<"f","o","o",".","*","b","a","z">>,
          "Greedy vs non-greedy? Who knows!" >>,
       << <<"1","2","3","-","4","5","6","-","7","8","9","0">>,
          <<"\\","d","{","3","}","-","\\","d","{","3","}","-","\\","d","{","4","}">>,
          "Phone number (works until international)" >>,
       << <<"u","s","e","r","@","e","x","a","m","p","l","e",".","c","o","m">>,
          <<"\\","w","+","@","\\","w","+","\\",".","\\","w","+">>,
          "Email (ignores 99% of real emails)" >>,
       << <<>>,
          <<"^",".","*","$">>,
          "Empty string (your regex's existential crisis)" >>,
       << ManyAs,
          <<"a","{","5",",","1","0","}">>,
          "Long strings: where greed goes to die" >>,
       << <<"c","a","f","é">>,
          <<"c","a","f","e">>,
          "Unicode: because bytes have feelings too" >>,
       << <<" "," ","s","p","a","c","e","s"," "," ">>,
          <<"^","s","p","a","c","e","s","$">>,
          "Whitespace: the silent regex killer" >>,
       << <<"p","r","i","c","e",":"," ","$","1","9",".","9","9">>,
          <<"\\","$","\\","d","+">>,
          "Special chars escaping (did you remember?)" >> >>

(***************************************************************************)
(* Lists are objects: a heap maps an object id to the list's value and the *)
(* number of references to it.  A list display allocates a new object; an  *)
(* object is freed when its last reference goes.  The elements of a list   *)
(* are references to tuples; a tuple is immutable and is named by its      *)
(* place in the display that builds it.                                    *)
(***************************************************************************)
NoObject == 0

Alloc(h, v) ==
    LET id == Min({k \in 1..(Cardinality(DOMAIN h) + 1) : k \notin DOMAIN h})
    IN  [heap |-> h @@ (id :> [val |-> v, refs |-> 1]), ref |-> id]

\* a reference that is never dropped
DecRef_leak(h, id) == h

DecRef(h, id) ==
    IF h[id].refs = 1 THEN [k \in DOMAIN h \ {id} |-> h[k]]
    ELSE [h EXCEPT ![id].refs = @ - 1]

\* generate_edge_cases() behind a cache: every call returns the one list object
generate_edge_cases_cached(h) ==
    IF DOMAIN h # {}
    THEN LET id == CHOOSE k \in DOMAIN h : TRUE
         IN  [heap |-> [h EXCEPT ![id].refs = @ + 1], ref |-> id]
    ELSE LET a == Alloc(h, [k \in DOMAIN EdgeCases |-> k])
         IN  [heap |-> [a.heap EXCEPT ![a.ref].refs = 2], ref |-> a.ref]

\* generate_edge_cases(): the heap after the call and the reference returned
generate_edge_cases(h) == Alloc(h, [k \in DOMAIN EdgeCases |-> k])

\* the tuple an element of the list refers to
Tuple(r) == EdgeCases[r]

(***************************************************************************)
(* random.shuffle: an in-place permutation.  The permutations drawn are    *)
(* those under which at most MaxMoved elements leave their place.          *)
(***************************************************************************)
MaxMoved == 2

\* the permutations of the index set D that move at most n indices
Moving(D, n) ==
    UNION {{[k \in D |-> IF k \in M THEN q[k] ELSE k] :
                q \in {f \in [M -> M] : Range(f) = M}} :
           M \in {N \in SUBSET D : Cardinality(N) <= n}}

\* an exchange that loses an element: x[a] = x[b] without the way back
random_shuffle_overwrite(x) ==
    {[x EXCEPT ![a] = x[b]] : a \in DOMAIN x, b \in DOMAIN x}

\* the values the list x can have after random.shuffle(x)
random_shuffle(x) ==
    {[k \in DOMAIN x |-> x[p[k]]] : p \in Moving(DOMAIN x, MaxMoved)}

(***************************************************************************)
(* Lines of standard input                                                 *)
(***************************************************************************)
\* quit
Line_quit ==
    <<"q","u","i","t">>

\* '  QuIT<tab>': the sentinel in another case, with surrounding whitespace
Line_QuIT ==
    <<" "," ","Q","u","I","T","\t">>

\* quits: contains the sentinel, is not the sentinel
Line_quits ==
    <<"q","u","i","t","s">>

\* |hello w.*|foo.*|\d+-\d+-\d+|user@.*
Line_all ==
    <<"|","h","e","l","l","o"," ","w",".","*","|","f","o","o",".","*","|",
      "\\","d","+","-","\\","d","+","-","\\","d","+","|","u","s","e","r","@",
      ".","*">>

\* \d+-\d+-\d+|foo.*|hello w.*
Line_three_of_five ==
    <<"\\","d","+","-","\\","d","+","-","\\","d","+","|","f","o","o",".","*",
      "|","h","e","l","l","o"," ","w",".","*">>

\* foo.*baz|hello world
Line_two_of_five ==
    <<"f","o","o",".","*","b","a","z","|","h","e","l","l","o"," ","w","o","r",
      "l","d">>

\* caf.
Line_caf ==
    <<"c","a","f",".">>

\* caf.|price.*
Line_caf_price ==
    <<"c","a","f",".","|","p","r","i","c","e",".","*">>

\* hello\nworld|a+|caf.|\s+spaces\s+|price.*
Line_none ==
    <<"h","e","l","l","o","\\","n","w","o","r","l","d","|","a","+","|","c",
      "a","f",".","|","\\","s","+","s","p","a","c","e","s","\\","s","+","|",
      "p","r","i","c","e",".","*">>

\* ' spaces ': a substring of a subject, with surrounding whitespace
Line_spaces ==
    <<" ","s","p","a","c","e","s"," ">>

\* (unclosed
Line_unclosed ==
    <<"(","u","n","c","l","o","s","e","d">>

\* a{4294967295}: a repetition number that is MAXREPEAT
Line_too_large ==
    <<"a","{","4","2","9","4","9","6","7","2","9","5","}">>

\* ' Y '
Line_Y ==
    <<" ","Y"," ">>

\* the lines a user may enter at either prompt
PatternLines ==
    {Line_quit, Line_QuIT, Line_quits, Line_all, Line_three_of_five,
     Line_two_of_five, Line_caf, Line_caf_price, Line_none, Line_spaces,
     Line_unclosed, Line_too_large}

VerboseLines == {Line_Y, Line_quit}

(***************************************************************************)
(* State                                                                   *)
(*   pc, pattern, verbose            main's position and locals            *)
(*   compiled, cases, idx, passed,   test_pattern's locals (cases is a     *)
(*   should_match, actual_match,     reference into heap, idx the number   *)
(*   score                           of cases the for loop has taken)      *)
(*   heap                            the list objects alive                *)
(*   stdin, calls                    the lines read and the test_pattern   *)
(*                                   calls made since test_pattern last    *)
(*                                   returned                              *)
(*   out                             the entries printed since then, or    *)
(*                                   since the pattern line was read       *)
(*   reordered                       history: some earlier round's shuffle *)
(*                                   has changed the order of its list     *)
(***************************************************************************)
VARIABLES pc, pattern, verbose, compiled, cases, idx, passed,
          should_match, actual_match, score, heap, stdin, out, calls,
          reordered

vars == <<pc, pattern, verbose, compiled, cases, idx, passed,
          should_match, actual_match, score, heap, stdin, out, calls,
          reordered>>

main_locals == <<pattern, verbose>>

test_locals == <<compiled, cases, idx, passed, should_match, actual_match, score>>

QUIT == <<"q","u","i","t">>

\* line 86: pattern.lower() == 'quit'
is_quit(p) == lower(p) = QUIT

\* line 90: input(...).strip().lower() == 'y'
is_verbose(line) == lower(strip(line)) = <<"y">>

\* the order of the list display
DisplayOrder == [k \in DOMAIN EdgeCases |-> k]

NoScore == [num |-> 0, den |-> 1]

Init ==
    /\ pc = "prompt_pattern"
    /\ pattern = <<>>
    /\ verbose = FALSE
    /\ compiled = <<>>
    /\ cases = NoObject
    /\ idx = 0
    /\ passed = 0
    /\ should_match = FALSE
    /\ actual_match = FALSE
    /\ score = NoScore
    /\ heap = <<>>
    /\ stdin = <<>>
    /\ out = << [kind |-> "banner"] >>
    /\ calls = <<>>
    /\ reordered = FALSE

\* line 85-88: the pattern line is the quit sentinel
ReadQuit ==
    /\ pc = "prompt_pattern"
    /\ \E line \in PatternLines :
          /\ is_quit(strip(line))
          /\ pattern' = strip(line)
          /\ stdin' = Append(stdin, line)
    /\ out' = << [kind |-> "goodbye"] >>
    /\ pc' = "done"
    /\ UNCHANGED <<verbose, test_locals, heap, calls, reordered>>

\* line 85-86: any other pattern line
ReadPattern ==
    /\ pc = "prompt_pattern"
    /\ \E line \in PatternLines :
          /\ ~is_quit(strip(line))
          /\ pattern' = strip(line)
          /\ stdin' = Append(stdin, line)
    /\ out' = <<>>
    /\ pc' = "prompt_verbose"
    /\ UNCHANGED <<verbose, test_locals, heap, calls, reordered>>

\* a verbosity prompt that also takes the quit sentinel
ReadVerbose_quits ==
    /\ pc = "prompt_verbose"
    /\ \E line \in VerboseLines :
          /\ verbose' = is_verbose(line)
          /\ stdin' = Append(stdin, line)
          /\ pc' = IF is_quit(strip(line)) THEN "done" ELSE "test_pattern"
    /\ UNCHANGED <<pattern, test_locals, heap, out, calls, reordered>>

\* line 90
ReadVerbose ==
    /\ pc = "prompt_verbose"
    /\ \E line \in VerboseLines :
          /\ verbose' = is_verbose(line)
          /\ stdin' = Append(stdin, line)
    /\ pc' = "test_pattern"
    /\ UNCHANGED <<pattern, test_locals, heap, out, calls, reordered>>

\* line 38-39
Header == << [kind |-> "testing", pattern |-> pattern], [kind |-> "spinning"] >>

\* line 91, 38-42: the pattern compiles
CompileOk ==
    /\ pc = "test_pattern"
    /\ Parse(pattern).st = "ok"
    /\ calls' = Append(calls, <<pattern, verbose>>)
    /\ out' = out \o Header
    /\ compiled' = Parse(pattern).alts
    /\ pc' = "generate"
    /\ UNCHANGED <<main_locals, cases, idx, passed, should_match, actual_match,
                   score, heap, stdin, reordered>>

\* line 91, 38-46: re.compile raises re.error, which test_pattern catches
CompileError ==
    /\ pc = "test_pattern"
    /\ Parse(pattern).st = "error"
    /\ calls' = Append(calls, <<pattern, verbose>>)
    /\ out' = out \o Header \o
              << [kind |-> "syntax_error", msg |-> Parse(pattern).msg],
                 [kind |-> "hint"] >>
    /\ pc' = "return"
    /\ UNCHANGED <<main_locals, test_locals, heap, stdin, reordered>>

\* line 91, 38-42: re.compile raises OverflowError, which nothing catches:
\* it leaves test_pattern and main, and the interpreter prints a traceback
CompileOverflow ==
    /\ pc = "test_pattern"
    /\ Parse(pattern).st = "overflow"
    /\ calls' = Append(calls, <<pattern, verbose>>)
    /\ out' = out \o Header \o
              << [kind |-> "traceback", error |-> "OverflowError",
                  msg |-> Parse(pattern).msg] >>
    /\ pc' = "crashed"
    /\ UNCHANGED <<main_locals, test_locals, heap, stdin, reordered>>

\* line 48
GenerateCases ==
    /\ pc = "generate"
    /\ heap' = generate_edge_cases(heap).heap
    /\ cases' = generate_edge_cases(heap).ref
    /\ pc' = "shuffle"
    /\ UNCHANGED <<main_locals, compiled, idx, passed, should_match, actual_match,
                   score, stdin, out, calls, reordered>>

\* line 49-51
Shuffle ==
    /\ pc = "shuffle"
    /\ \E v \in random_shuffle(heap[cases].val) :
          heap' = [heap EXCEPT ![cases].val = v]
    /\ passed' = 0
    /\ idx' = 0
    /\ pc' = "loop"
    /\ UNCHANGED <<main_locals, compiled, cases, should_match, actual_match,
                   score, stdin, out, calls, reordered>>

\* line 62: test_str[:50] and the ellipsis
Truncated(test_str) ==
    IF Len(test_str) > 50 THEN SubSeq(test_str, 1, 50) \o <<".", ".", ".">>
    ELSE test_str

\* line 63-64
Label(m) == IF m THEN "match" ELSE "no match"

\* a count of the matches instead of the agreements
Tally_matches(n, sm, am) == IF am THEN n + 1 ELSE n

\* line 56-57: the count after one case
Tally(n, sm, am) == IF am = sm THEN n + 1 ELSE n

\* every case printed, whatever the verbosity
CaseOutput_always(v, description, test_str, sm, am) ==
    IF am = sm
    THEN << [kind |-> "pass", description |-> description] >>
    ELSE << [kind |-> "fail", description |-> description,
             test |-> Truncated(test_str),
             expected |-> Label(sm), got |-> Label(am)] >>

\* line 56-64: what one case prints
CaseOutput(v, description, test_str, sm, am) ==
    IF am = sm
    THEN IF v THEN << [kind |-> "pass", description |-> description] >> ELSE <<>>
    ELSE << [kind |-> "fail", description |-> description,
             test |-> Truncated(test_str),
             expected |-> Label(sm), got |-> Label(am)] >>

\* line 52-64: one turn of the for loop
CaseStep ==
    /\ pc = "loop"
    /\ idx < Len(heap[cases].val)
    /\ LET case             == Tuple(heap[cases].val[idx + 1])
           test_str         == case[1]
           expected_pattern == case[2]
           description      == case[3]
           sm == bool(re_fullmatch(expected_pattern, test_str))
           am == bool(fullmatch(compiled, test_str))
       IN  /\ should_match' = sm
           /\ actual_match' = am
           /\ passed' = Tally(passed, sm, am)
           /\ out' = out \o CaseOutput(verbose, description, test_str, sm, am)
    /\ idx' = idx + 1
    /\ UNCHANGED <<pc, main_locals, compiled, cases, score, heap, stdin, calls,
                   reordered>>

\* line 66: passed / len(cases), kept as the exact quotient.  The float
\* quotient n / 10 is the double nearest to it, and so are the literals 0.7
\* and 0.3, so the comparisons below order floats as they order quotients.
Quotient(n, d) == [num |-> n, den |-> d]

\* line 67: {score:.0%}, for a quotient in tenths
Percent(q) == (100 * q.num) \div q.den

\* the thresholds taken inclusively
Commentary_inclusive(q) ==
    IF q.num = q.den
    THEN "Perfect! (Did you test with real data? Probably not.)"
    ELSE IF 10 * q.num >= 7 * q.den
    THEN "Not terrible! (It'll fail in production, but gracefully.)"
    ELSE IF 10 * q.num >= 3 * q.den
    THEN "Room for improvement! (Like, all the rooms.)"
    ELSE "Oof. Maybe use a string method instead?"

\* line 70-77
Commentary(q) ==
    IF q.num = q.den
    THEN "Perfect! (Did you test with real data? Probably not.)"
    ELSE IF 10 * q.num > 7 * q.den
    THEN "Not terrible! (It'll fail in production, but gracefully.)"
    ELSE IF 10 * q.num > 3 * q.den
    THEN "Room for improvement! (Like, all the rooms.)"
    ELSE "Oof. Maybe use a string method instead?"

\* line 66-77: the loop is exhausted
Score ==
    /\ pc = "loop"
    /\ idx = Len(heap[cases].val)
    /\ IF Len(heap[cases].val) = 0
       THEN \* ZeroDivisionError, uncaught
            /\ pc' = "crashed"
            /\ out' = Append(out, [kind |-> "traceback", error |-> "ZeroDivisionError",
                                   msg |-> "division by zero"])
            /\ score' = score
       ELSE LET q == Quotient(passed, Len(heap[cases].val))
            IN  /\ score' = q
                /\ out' = out \o
                      << [kind |-> "score", passed |-> passed,
                          total |-> Len(heap[cases].val), percent |-> Percent(q)],
                         [kind |-> "commentary", text |-> Commentary(q)] >>
                /\ pc' = "return"
    /\ UNCHANGED <<main_locals, compiled, cases, idx, passed, should_match,
                   actual_match, heap, stdin, calls, reordered>>

\* line 46 or 77, then 92: test_pattern returns, its frame and the references
\* it holds go, and main prints the separator
Return ==
    /\ pc = "return"
    /\ heap' = IF cases = NoObject THEN heap ELSE DecRef(heap, cases)
    /\ compiled' = <<>>
    /\ cases' = NoObject
    /\ idx' = 0
    /\ passed' = 0
    /\ should_match' = FALSE
    /\ actual_match' = FALSE
    /\ score' = NoScore
    /\ out' = << [kind |-> "separator"] >>
    /\ stdin' = <<>>
    /\ calls' = <<>>
    /\ reordered' = (reordered \/ (cases # NoObject /\ heap[cases].val # DisplayOrder))
    /\ pc' = "prompt_pattern"
    /\ UNCHANGED main_locals

Next ==
    \/ ReadQuit
    \/ ReadPattern
    \/ ReadVerbose
    \/ CompileOk
    \/ CompileError
    \/ CompileOverflow
    \/ GenerateCases
    \/ Shuffle
    \/ CaseStep
    \/ Score
    \/ Return

Spec == Init /\ [][Next]_vars

\* every enumerated line is in the modelled dialect
InDialect == \A line \in PatternLines : Parse(strip(line)).st # "unsupported"

\* the values the variables take
TypeOK ==
    /\ pc \in {"prompt_pattern", "prompt_verbose", "test_pattern", "generate",
               "shuffle", "loop", "return", "done", "crashed"}
    /\ verbose \in BOOLEAN
    /\ cases \in {NoObject} \cup DOMAIN heap
    /\ idx \in 0..Len(EdgeCases)
    /\ passed \in 0..Len(EdgeCases)
    /\ should_match \in BOOLEAN
    /\ actual_match \in BOOLEAN
    /\ reordered \in BOOLEAN

(***************************************************************************)
(* Properties                                                              *)
(***************************************************************************)
\* the verdict of the reference pattern of the display's r-th case
Expected(r) == bool(re_fullmatch(EdgeCases[r][2], EdgeCases[r][1]))

\* the verdict of the compiled pattern c on the display's r-th case
Actual(c, r) == bool(fullmatch(c, EdgeCases[r][1]))

\* the cases of the display on which the compiled pattern c agrees
Agreeing(c) == {r \in DOMAIN EdgeCases : Expected(r) = Actual(c, r)}

\* the per-case entries among the printed entries o
CaseEntries(o) == SelectSeq(o, LAMBDA e : e.kind \in {"pass", "fail"})

Entries(o, kind) == SelectSeq(o, LAMBDA e : e.kind = kind)

\* the round has a list and has taken idx of its cases
InLoop == pc \in {"loop", "return"} /\ cases # NoObject

\* the round is scored
Scored == pc = "return" /\ cases # NoObject

\* the pattern text does not compile
CompileFails == Parse(pattern).st # "ok"

\* C1: a round whose pattern text does not compile reports the compile
\* error, evaluates no case, prints no score and no commentary, and the
\* session goes on: the call returns to the loop, which prompts again.
C1_CompileFailureEndsOnlyTheRound ==
    [][(pc = "test_pattern" /\ CompileFails) =>
          /\ pc' = "return"
          /\ Entries(out', "syntax_error") # <<>>
          /\ Entries(out', "score") = <<>>
          /\ Entries(out', "commentary") = <<>>
          /\ CaseEntries(out') = <<>>
          /\ cases' = NoObject]_vars

\* C2: the session ends only on the quit sentinel: whenever the loop is no
\* longer running, the last pattern line read, trimmed and lowered, is "quit".
C2_OnlyQuitEndsTheSession ==
    pc \in {"done", "crashed"} => (pc = "done" /\ is_quit(pattern))

\* C3: whatever permutation the shuffle chose, a scored round has the
\* passed count, the total and the score of the run in display order; the
\* list is a permutation of the display and the per-case entries printed
\* are those of the display order, in some order.
C3_OrderIndependence ==
    Scored =>
        LET list == heap[cases].val
            c    == Parse(pattern).alts
            n    == Cardinality(Agreeing(c))
        IN  /\ passed = n
            /\ Len(list) = Len(DisplayOrder)
            /\ score = Quotient(n, Len(DisplayOrder))
            /\ Range(list) = Range(DisplayOrder)
            /\ Range(CaseEntries(out)) =
                   UNION {Range(CaseOutput(verbose, EdgeCases[r][3], EdgeCases[r][1],
                                           Expected(r), Actual(c, r))) :
                          r \in DOMAIN EdgeCases}

\* a scored round whose list is not in display order
C3_Witness ==
    Scored /\ heap[cases].val # DisplayOrder /\ passed = 7

\* C4: at every step of the case loop 0 <= passed <= cases taken <= total,
\* the total is 10, passed is the number of cases taken whose expected and
\* actual verdicts are equal, and the final score is passed / total, in [0, 1].
C4_CountInvariant ==
    InLoop =>
        LET list == heap[cases].val
        IN  /\ 0 <= passed /\ passed <= idx /\ idx <= Len(list)
            /\ Len(list) = 10
            /\ passed = Cardinality({k \in 1..idx :
                                        Expected(list[k]) = Actual(compiled, list[k])})
            /\ pc = "return" =>
                  /\ idx = Len(list)
                  /\ score = [num |-> passed, den |-> 10]
                  /\ 0 <= score.num /\ score.num <= score.den

\* the loop is under way, with agreements and disagreements behind it
C4_Witness ==
    pc = "loop" /\ 0 < passed /\ passed < idx /\ idx < 10

\* (?:c)\Z: the pattern c followed by the end of the subject
EndAnchored(c) ==
    << << [op |-> "subpattern", alts |-> c],
          [op |-> "at", where |-> "end_string"] >> >>

Spaces == <<"s","p","a","c","e","s">>

\* C5: both verdicts of a case are those of a match that starts at the
\* start of the subject and ends at its end: a pattern that only matches
\* inside the subject, or only a prefix of it, is reported as no match.
C5_FullMatch ==
    (InLoop /\ idx > 0) =>
        LET case     == Tuple(heap[cases].val[idx])
            test_str == case[1]
        IN  /\ actual_match = bool(match(EndAnchored(compiled), test_str))
            /\ should_match = bool(match(EndAnchored(Parse(case[2]).alts), test_str))
            /\ (pattern = Spaces /\ case[3] = "Whitespace: the silent regex killer")
                   => ~actual_match

\* the pattern "spaces" has met the subject "  spaces  ", which contains it
C5_Witness ==
    /\ InLoop /\ idx > 0
    /\ pattern = Spaces
    /\ Tuple(heap[cases].val[idx])[3] = "Whitespace: the silent regex killer"
    /\ bool(search(compiled, Tuple(heap[cases].val[idx])[1]))
    /\ ~actual_match

\* C6: what a round yields is a function of its pattern text alone, in every
\* round of a session: each case's two verdicts, the passed count and the
\* score; and between rounds nothing of test_pattern is left: no list is
\* alive and its locals are unbound.
C6_RoundsIndependent ==
    /\ (InLoop /\ idx > 0) =>
          /\ should_match = Expected(heap[cases].val[idx])
          /\ actual_match = Actual(Parse(pattern).alts, heap[cases].val[idx])
    /\ Scored =>
          /\ passed = Cardinality(Agreeing(Parse(pattern).alts))
          /\ score.num = passed /\ score.den = Len(EdgeCases)
    /\ pc \in {"prompt_pattern", "prompt_verbose", "test_pattern"} =>
          /\ heap = <<>>
          /\ compiled = <<>> /\ cases = NoObject /\ idx = 0 /\ passed = 0
          /\ score = NoScore

\* a scored round that follows a round whose shuffle reordered its list
C6_Witness ==
    Scored /\ reordered /\ passed = 7

\* C7: every call of generate_edge_cases returns the ten records of the
\* display, in its order, in a list of its own, whatever earlier rounds'
\* shuffles did to the lists they had obtained.
C7_CatalogFresh ==
    pc = "shuffle" =>
        /\ Len(heap[cases].val) = 10
        /\ [k \in DOMAIN heap[cases].val |-> Tuple(heap[cases].val[k])] = EdgeCases
        /\ heap[cases].refs = 1

\* a call has returned after an earlier round's shuffle reordered its list
C7_Witness ==
    pc = "shuffle" /\ reordered

\* C8: a case prints an entry exactly when it is a failure or the round is
\* verbose: a non-verbose round has printed taken - passed entries, all of
\* them failures, a verbose round has printed one entry per case taken;
\* the passed count does not depend on the verbosity.
C8_Reporting ==
    InLoop =>
        /\ Len(Entries(out, "fail")) = idx - passed
        /\ Len(Entries(out, "pass")) = (IF verbose THEN passed ELSE 0)
        /\ Len(CaseEntries(out)) = (IF verbose THEN idx ELSE idx - passed)
        /\ \A k \in DOMAIN out : out[k].kind = "pass" => verbose
        /\ Scored => passed = Cardinality(Agreeing(Parse(pattern).alts))

\* a non-verbose scored round with three failures printed
C8_Witness ==
    Scored /\ ~verbose /\ passed = 7 /\ Len(CaseEntries(out)) = 3

\* C9: a scored round prints exactly one commentary, its last entry, chosen
\* by the passed count of ten: 10 the first message, 8 or 9 the second,
\* 4 to 7 the third, 0 to 3 the fourth.
C9_Commentary ==
    Scored =>
        /\ Len(Entries(out, "commentary")) = 1
        /\ out[Len(out)].kind = "commentary"
        /\ out[Len(out)].text =
              CASE passed = 10 ->
                     "Perfect! (Did you test with real data? Probably not.)"
                [] passed \in 8..9 ->
                     "Not terrible! (It'll fail in production, but gracefully.)"
                [] passed \in 4..7 ->
                     "Room for improvement! (Like, all the rooms.)"
                [] passed \in 0..3 ->
                     "Oof. Maybe use a string method instead?"

\* a score of exactly 0.7 has been commented
C9_Witness ==
    /\ Scored /\ passed = 7
    /\ out[Len(out)].text = "Room for improvement! (Like, all the rooms.)"

\* C10: lines are read in the order pattern, verbosity, pattern, ...; the
\* sentinel is taken on a pattern line only, before the verbosity prompt: a
\* quit round has read one line and called nothing, any other round reads
\* two lines and calls test_pattern once, with the trimmed pattern; "quit"
\* at the verbosity prompt is read as non-verbose.
C10_InputProtocol ==
    /\ pc = "prompt_pattern" => stdin = <<>> /\ calls = <<>>
    /\ pc = "prompt_verbose" =>
          /\ Len(stdin) = 1 /\ calls = <<>>
          /\ pattern = strip(stdin[1]) /\ lower(pattern) # QUIT
    /\ pc = "done" =>
          /\ Len(stdin) = 1 /\ calls = <<>>
          /\ lower(strip(stdin[1])) = QUIT
    /\ pc = "test_pattern" => Len(stdin) = 2 /\ calls = <<>>
    /\ pc \in {"generate", "shuffle", "loop", "return", "crashed"} =>
          /\ Len(stdin) = 2
          /\ lower(strip(stdin[1])) # QUIT
          /\ calls = << <<strip(stdin[1]), lower(strip(stdin[2])) = <<"y">> >> >>
    /\ (Len(stdin) = 2 /\ stdin[2] = Line_quit) => (pc # "done" /\ ~verbose)

\* the cases are being evaluated after "quit" was entered at the verbosity prompt
C10_Witness ==
    pc = "loop" /\ Len(stdin) = 2 /\ stdin[2] = Line_quit /\ idx > 0

====
